---- MODULE Spec2Model ----
(***************************************************************************)
(* Model of FIRMWARE/sim/ecu_sim.py: the ECU simulator loop that receives  *)
(* SteeringWheel_Status frames (0x101), tracks button edges, gear, the     *)
(* pit-limiter and DRS latches and two simulated temperatures, and answers *)
(* each accepted frame with one ECU_Status_Display frame (0x201).          *)
(*                                                                         *)
(* Temperatures are fixed-point integers in hundredths of a degree         *)
(* Celsius.  The script has no try/except: an exception raised by          *)
(* db.decode_message or ecu_status.encode leaves the while-loop and ends   *)
(* the process (pc = "Terminated").                                        *)
(***************************************************************************)
EXTENDS Integers, Sequences, FiniteSets, TLC

VARIABLES
    temp1, temp2, target_temp1, target_temp2, update_counter,
    gear, pit_active, drs_status, prev_buttons,
    msg,            \* result of the last bus.recv (None on timeout)
    data,           \* result of the last db.decode_message
    tx,             \* last frame handed to bus.send (None before the first)
    pc,             \* "Waiting" (at bus.recv), "Delay" (at time.sleep), "Terminated"
    err,            \* uncaught exception that ended the loop, or "none"
    accepted,       \* history: number of 0x101 frames received
    sent,           \* history: number of bus.send calls
    drawn           \* history: the last two draws of random.uniform(-0.05, 0.05)

derived == <<temp1, temp2, target_temp1, target_temp2, update_counter,
             gear, pit_active, drs_status, prev_buttons>>

vars == <<temp1, temp2, target_temp1, target_temp2, update_counter,
          gear, pit_active, drs_status, prev_buttons,
          msg, data, tx, pc, err, accepted, sent, drawn>>

(***************************************************************************)
(* Bounds                                                                  *)
(***************************************************************************)
\* number of 0x101 frames the environment delivers in one run
MaxFrames == 10
\* the same, in the runs that follow the temperatures (SpecThermal)
MaxThermalFrames == 40

(***************************************************************************)
(* Program constants                                                       *)
(***************************************************************************)
STEERING_WHEEL_STATUS_ID == 257        \* 0x101
ECU_STATUS_DISPLAY_ID == 513           \* 0x201
GEAR_MAX == 9
GEAR_MIN == 0
TARGET_PERIOD == 20
TEMP_WARNING == 13000                  \* 130 degrees, in hundredths

None == [none |-> TRUE]

(***************************************************************************)
(* Python's integer bit operators (two's complement, unbounded width)      *)
(***************************************************************************)
BitNot(a) == -a - 1

RECURSIVE BitAnd(_, _)
BitAnd(a, b) ==
    IF a = 0 \/ b = 0 THEN 0
    ELSE IF a = -1 THEN b
    ELSE IF b = -1 THEN a
    ELSE 2 * BitAnd(a \div 2, b \div 2) + (a % 2) * (b % 2)

RECURSIVE BitOr(_, _)
BitOr(a, b) ==
    IF a = 0 THEN b
    ELSE IF b = 0 THEN a
    ELSE IF a = -1 \/ b = -1 THEN -1
    ELSE 2 * BitOr(a \div 2, b \div 2)
         + (IF a % 2 = 1 \/ b % 2 = 1 THEN 1 ELSE 0)

RECURSIVE BitXor(_, _)
BitXor(a, b) ==
    IF a = 0 THEN b
    ELSE IF b = 0 THEN a
    ELSE IF a = -1 THEN BitNot(b)
    ELSE IF b = -1 THEN BitNot(a)
    ELSE 2 * BitXor(a \div 2, b \div 2)
         + (IF a % 2 # b % 2 THEN 1 ELSE 0)

Min(a, b) == IF a <= b THEN a ELSE b
Max(a, b) == IF a >= b THEN a ELSE b

(***************************************************************************)
(* Inputs: frames on the bus and the draws of random.uniform               *)
(***************************************************************************)
\* A frame as bus.recv returns it.  The payload is kept as the signal values
\* it carries; complete is FALSE for a payload too short for the schema.
Frame(id, complete, up, down, drs, pit, clutch, rotary) ==
    [arbitration_id |-> id, complete |-> complete,
     Button_UP |-> up, Button_DOWN |-> down,
     Button_DRS |-> drs, Button_PitLimiter |-> pit,
     ClutchValue |-> clutch, RotaryPosition |-> rotary]

\* (ClutchValue, RotaryPosition) pairs carried by the frames
Passthrough == {<<0, 1>>, <<50, 3>>}

SteeringFrames ==
    {Frame(STEERING_WHEEL_STATUS_ID, TRUE, u, d, s, p, cr[1], cr[2]) :
        u \in {0, 1}, d \in {0, 1}, s \in {0, 1}, p \in {0, 1},
        cr \in Passthrough}

TruncatedFrames ==
    {Frame(STEERING_WHEEL_STATUS_ID, FALSE, 1, 0, 0, 1, 50, 3)}

\* 0x101 frames that decode but whose passthrough values the output schema
\* rejects (ecu_status.encode raises)
UnencodableFrames ==
    {Frame(STEERING_WHEEL_STATUS_ID, TRUE, u, 0, 0, p, 250, 15) :
        u \in {0, 1}, p \in {0, 1}}

OtherFrames ==
    {Frame(256, TRUE, 1, 1, 1, 1, 50, 3)}

\* random.uniform(-10, 10), random.uniform(110, 130)
InitTemp1 == {-1000}
InitTemp2 == {12990}
\* random.uniform(-10, 15), random.uniform(110, 145)
Target1 == {-1000, 1500}
Target2 == {11000, 14500}
\* the two draws of random.uniform(-0.05, 0.05) of one cycle
NoisePairs == {<<5, -5>>}

\* SpecThermal: the buttons are left alone and the noise varies
ThermalFrames ==
    {Frame(STEERING_WHEEL_STATUS_ID, TRUE, 0, 0, 0, 0, 0, 1)}
ThermalUnencodable ==
    {Frame(STEERING_WHEEL_STATUS_ID, TRUE, 0, 0, 0, 0, 250, 15)}
ThermalNoise == {<<0, 0>>, <<-5, 5>>}

(***************************************************************************)
(* db.decode_message('SteeringWheel_Status', msg.data)                     *)
(***************************************************************************)
DecodeOk(f) == f.complete

decode_message(f) ==
    [Button_UP |-> f.Button_UP, Button_DOWN |-> f.Button_DOWN,
     Button_DRS |-> f.Button_DRS, Button_PitLimiter |-> f.Button_PitLimiter,
     ClutchValue |-> f.ClutchValue, RotaryPosition |-> f.RotaryPosition]

(***************************************************************************)
(* Edge/state tracker                                                      *)
(***************************************************************************)
\* variant: the PitLimiter flag packed with the DRS mask
Buttons_PitAsDrs(d) ==
    LET b1 == IF d.Button_UP # 0 THEN 1 ELSE 0
        b2 == IF d.Button_DOWN # 0 THEN BitOr(b1, 2) ELSE b1
        b3 == IF d.Button_DRS # 0 THEN BitOr(b2, 4) ELSE b2
    IN  IF d.Button_PitLimiter # 0 THEN BitOr(b3, 4) ELSE b3

Buttons(d) ==
    LET b0 == 0
        b1 == IF d.Button_UP # 0 THEN BitOr(b0, 1) ELSE b0
        b2 == IF d.Button_DOWN # 0 THEN BitOr(b1, 2) ELSE b1
        b3 == IF d.Button_DRS # 0 THEN BitOr(b2, 4) ELSE b2
        b4 == IF d.Button_PitLimiter # 0 THEN BitOr(b3, 8) ELSE b3
    IN  b4

\* variant: both edges instead of the rising edge only
RisingEdges_AnyChange(b, prev) == BitXor(b, prev)

\* variant: the complement of prev_buttons left out
RisingEdges_NoInvert(b, prev) == BitAnd(b, prev)

RisingEdges(b, prev) == BitAnd(b, BitNot(prev))

\* variant: presses only, as for the latches
Changes_RisingOnly(b, prev) == BitAnd(b, BitNot(prev))

Changes(b, prev) == BitXor(b, prev)

\* variant: the two clamps left out
GearLogic_NoClamp(g, ch) ==
    LET g1 == IF BitAnd(ch, 1) # 0 THEN g + 1 ELSE g
    IN  IF BitAnd(ch, 2) # 0 THEN g1 - 1 ELSE g1

\* variant: the Up and Down masks exchanged
GearLogic_MasksSwapped(g, ch) ==
    LET g1 == IF BitAnd(ch, 2) # 0 THEN Min(g + 1, GEAR_MAX) ELSE g
    IN  IF BitAnd(ch, 1) # 0 THEN Max(g1 - 1, GEAR_MIN) ELSE g1

\* variant: the Down test placed before the Up test
GearLogic_DownFirst(g, ch) ==
    LET g1 == IF BitAnd(ch, 2) # 0 THEN Max(g - 1, GEAR_MIN) ELSE g
    IN  IF BitAnd(ch, 1) # 0 THEN Min(g1 + 1, GEAR_MAX) ELSE g1

GearLogic(g, ch) ==
    LET g1 == IF BitAnd(ch, 1) # 0 THEN Min(g + 1, GEAR_MAX) ELSE g
    IN  IF BitAnd(ch, 2) # 0 THEN Max(g1 - 1, GEAR_MIN) ELSE g1

PitLogic(p, re) ==
    IF BitAnd(re, 8) # 0 THEN (IF p # 0 THEN 0 ELSE 1) ELSE p

\* variant: the DRS latch tested with the PitLimiter mask
DrsLogic_PitMask(s, re) ==
    IF BitAnd(re, 8) # 0 THEN (IF s # 0 THEN 0 ELSE 1) ELSE s

DrsLogic(s, re) ==
    IF BitAnd(re, 4) # 0 THEN (IF s # 0 THEN 0 ELSE 1) ELSE s

(***************************************************************************)
(* Sensor model                                                            *)
(***************************************************************************)
\* (target - temp) * 0.05, rounded to the nearest hundredth
\* variant: the difference taken the other way round
Step5Percent_Away(temp, target) == ((temp - target) * 5 + 50) \div 100

Step5Percent(temp, target) == ((target - temp) * 5 + 50) \div 100

Converge(temp, target, noise) == temp + Step5Percent(temp, target) + noise

\* variant: the modulo test made on the counter before its increment
RetargetDue_BeforeIncrement(counter) == (counter - 1) % TARGET_PERIOD = 0

RetargetDue(counter) == counter % TARGET_PERIOD = 0

(***************************************************************************)
(* Output frame                                                            *)
(***************************************************************************)
\* variant: the two passthrough signals exchanged
Signals_SwappedFeedback(t1, t2, pit, drs, g, d) ==
    [Temp1 |-> t1, Temp2 |-> t2,
     PitLimiter_Active |-> pit, DRS_Status |-> drs,
     LED2_PitLimiter |-> pit,
     LED1_Temperature |-> IF t2 > TEMP_WARNING THEN 1 ELSE 0,
     Gear_Actual |-> g,
     Clutch_Feedback |-> d.RotaryPosition,
     Rotary_Feedback |-> d.ClutchValue]

\* variant: the warning raised at the threshold itself
Signals_WarnAtThreshold(t1, t2, pit, drs, g, d) ==
    [Temp1 |-> t1, Temp2 |-> t2,
     PitLimiter_Active |-> pit, DRS_Status |-> drs,
     LED2_PitLimiter |-> pit,
     LED1_Temperature |-> IF t2 >= TEMP_WARNING THEN 1 ELSE 0,
     Gear_Actual |-> g,
     Clutch_Feedback |-> d.ClutchValue,
     Rotary_Feedback |-> d.RotaryPosition]

\* variant: the pit-limiter LED fed from the DRS latch
Signals_Led2FromDrs(t1, t2, pit, drs, g, d) ==
    [Temp1 |-> t1, Temp2 |-> t2,
     PitLimiter_Active |-> pit, DRS_Status |-> drs,
     LED2_PitLimiter |-> drs,
     LED1_Temperature |-> IF t2 > TEMP_WARNING THEN 1 ELSE 0,
     Gear_Actual |-> g,
     Clutch_Feedback |-> d.ClutchValue,
     Rotary_Feedback |-> d.RotaryPosition]

Signals(t1, t2, pit, drs, g, d) ==
    [Temp1 |-> t1, Temp2 |-> t2,
     PitLimiter_Active |-> pit, DRS_Status |-> drs,
     LED2_PitLimiter |-> pit,
     LED1_Temperature |-> IF t2 > TEMP_WARNING THEN 1 ELSE 0,
     Gear_Actual |-> g,
     Clutch_Feedback |-> d.ClutchValue,
     Rotary_Feedback |-> d.RotaryPosition]

Message(payload) ==
    [arbitration_id |-> ECU_STATUS_DISPLAY_ID, data |-> payload,
     is_extended_id |-> FALSE]

(***************************************************************************)
(* State after construction                                                *)
(***************************************************************************)
Init ==
    /\ temp1 \in InitTemp1
    /\ temp2 \in InitTemp2
    /\ target_temp1 = temp1
    /\ target_temp2 = temp2
    /\ update_counter = 0
    /\ gear = 0
    /\ pit_active = 0
    /\ drs_status = 0
    /\ prev_buttons = 0
    /\ msg = None
    /\ data = None
    /\ tx = None
    /\ pc = "Waiting"
    /\ err = "none"
    /\ accepted = 0
    /\ sent = 0
    /\ drawn = <<0, 0>>

(***************************************************************************)
(* One loop iteration, by the path it takes                                *)
(***************************************************************************)
\* lines 69-120: decode, edges, gear and latches, thermal update
Update(f, noise, tg) ==
    LET d  == decode_message(f)
        b  == Buttons(d)
        re == RisingEdges(b, prev_buttons)
        ch == Changes(b, prev_buttons)
        n  == update_counter + 1
        t1 == IF RetargetDue(n) THEN tg[1] ELSE target_temp1
        t2 == IF RetargetDue(n) THEN tg[2] ELSE target_temp2
    IN  /\ data' = d
        /\ gear' = GearLogic(gear, ch)
        /\ pit_active' = PitLogic(pit_active, re)
        /\ drs_status' = DrsLogic(drs_status, re)
        /\ prev_buttons' = b
        /\ update_counter' = n
        /\ target_temp1' = t1
        /\ target_temp2' = t2
        /\ temp1' = Converge(temp1, t1, noise[1])
        /\ temp2' = Converge(temp2, t2, noise[2])
        /\ drawn' = noise

Targets ==
    IF RetargetDue(update_counter + 1)
    THEN Target1 \X Target2
    ELSE {<<target_temp1, target_temp2>>}

\* variant: the timeout falls through to the sleep instead of `continue`
Timeout_Delays ==
    /\ pc = "Waiting"
    /\ msg' = None
    /\ pc' = "Delay"
    /\ UNCHANGED <<derived, data, tx, err, accepted, sent, drawn>>

\* bus.recv(0.1) returns None: continue
Timeout ==
    /\ pc = "Waiting"
    /\ msg' = None
    /\ UNCHANGED <<derived, data, tx, pc, err, accepted, sent, drawn>>

\* variant: the thermal counter advanced for every received frame
RecvOther_Counts ==
    /\ pc = "Waiting"
    /\ update_counter < MaxFrames
    /\ \E f \in OtherFrames : msg' = f
    /\ update_counter' = update_counter + 1
    /\ pc' = "Delay"
    /\ UNCHANGED <<temp1, temp2, target_temp1, target_temp2, gear,
                   pit_active, drs_status, prev_buttons, data, tx, err,
                   accepted, sent, drawn>>

\* variant: bus.send placed after the if-block, so the last payload is sent
\* again for a frame with another id
RecvOther_Resends ==
    /\ pc = "Waiting"
    /\ tx # None
    /\ sent < MaxFrames
    /\ \E f \in OtherFrames : msg' = f
    /\ tx' = tx
    /\ sent' = sent + 1
    /\ pc' = "Delay"
    /\ UNCHANGED <<derived, data, err, accepted, drawn>>

\* variant: a frame with another id loops again at once, like a timeout
RecvOther_NoDelay ==
    /\ pc = "Waiting"
    /\ \E f \in OtherFrames : msg' = f
    /\ UNCHANGED <<derived, data, tx, pc, err, accepted, sent, drawn>>

\* a frame with another arbitration id: skip the if-block, go to the sleep
RecvOther ==
    /\ pc = "Waiting"
    /\ \E f \in OtherFrames : msg' = f
    /\ pc' = "Delay"
    /\ UNCHANGED <<derived, data, tx, err, accepted, sent, drawn>>

\* variant: the loop returns to bus.recv right after bus.send
Answered_NoDelay(frames, noises, max) ==
    /\ pc = "Waiting"
    /\ update_counter < max
    /\ \E f \in frames, noise \in noises, tg \in Targets :
          /\ DecodeOk(f)
          /\ msg' = f
          /\ Update(f, noise, tg)
    /\ tx' = Message(Signals(temp1', temp2', pit_active', drs_status',
                             gear', data'))
    /\ sent' = sent + 1
    /\ accepted' = accepted + 1
    /\ UNCHANGED <<pc, err>>

\* a 0x101 frame, processed and answered
Answered(frames, noises, max) ==
    /\ pc = "Waiting"
    /\ update_counter < max
    /\ \E f \in frames, noise \in noises, tg \in Targets :
          /\ DecodeOk(f)
          /\ msg' = f
          /\ Update(f, noise, tg)
    /\ tx' = Message(Signals(temp1', temp2', pit_active', drs_status',
                             gear', data'))
    /\ sent' = sent + 1
    /\ accepted' = accepted + 1
    /\ pc' = "Delay"
    /\ UNCHANGED err

\* a 0x101 frame on which db.decode_message raises
DecodeRaises(frames, max) ==
    /\ pc = "Waiting"
    /\ update_counter < max
    /\ \E f \in frames :
          /\ ~DecodeOk(f)
          /\ msg' = f
    /\ accepted' = accepted + 1
    /\ pc' = "Terminated"
    /\ err' = "DecodeError"
    /\ UNCHANGED <<derived, data, tx, sent, drawn>>

\* a 0x101 frame on which ecu_status.encode raises
EncodeRaises(frames, noises, max) ==
    /\ pc = "Waiting"
    /\ update_counter < max
    /\ \E f \in frames, noise \in noises, tg \in Targets :
          /\ DecodeOk(f)
          /\ msg' = f
          /\ Update(f, noise, tg)
    /\ accepted' = accepted + 1
    /\ pc' = "Terminated"
    /\ err' = "EncodeError"
    /\ UNCHANGED <<tx, sent>>

RecvSteering == Answered(SteeringFrames, NoisePairs, MaxFrames)

DecodeFailure == DecodeRaises(TruncatedFrames, MaxFrames)

EncodeFailure == EncodeRaises(UnencodableFrames, NoisePairs, MaxFrames)

RecvSteeringThermal == Answered(ThermalFrames, ThermalNoise, MaxThermalFrames)

DecodeFailureThermal == DecodeRaises(TruncatedFrames, MaxThermalFrames)

EncodeFailureThermal ==
    EncodeRaises(ThermalUnencodable, ThermalNoise, MaxThermalFrames)

\* time.sleep(0.050)
Sleep ==
    /\ pc = "Delay"
    /\ pc' = "Waiting"
    /\ UNCHANGED <<derived, msg, data, tx, err, accepted, sent, drawn>>

Next ==
    \/ Timeout
    \/ RecvOther
    \/ RecvSteering
    \/ DecodeFailure
    \/ EncodeFailure
    \/ Sleep

Spec == Init /\ [][Next]_vars

\* the same loop in an environment that leaves the buttons alone, varies the
\* sensor noise and runs long enough to meet the target reassignment twice
NextThermal ==
    \/ Timeout
    \/ RecvOther
    \/ RecvSteeringThermal
    \/ DecodeFailureThermal
    \/ EncodeFailureThermal
    \/ Sleep

SpecThermal == Init /\ [][NextThermal]_vars

TypeOK ==
    /\ gear \in Int
    /\ pit_active \in {0, 1}
    /\ drs_status \in {0, 1}
    /\ prev_buttons \in 0..15
    /\ update_counter \in Nat
    /\ pc \in {"Waiting", "Delay", "Terminated"}
    /\ err \in {"none", "DecodeError", "EncodeError"}
    /\ (pc = "Terminated") <=> (err # "none")

(***************************************************************************)
(* Vocabulary of the properties                                            *)
(***************************************************************************)
\* bit of a bitmask, by its weight (1, 2, 4, 8)
BitOf(mask, weight) == (mask \div weight) % 2

\* the bitmask the specification assigns to a frame's four button flags
MaskOf(f) ==
    f.Button_UP + 2 * f.Button_DOWN + 4 * f.Button_DRS
    + 8 * f.Button_PitLimiter

\* this step ran the edge/state tracker on the frame msg'
Processed == update_counter' = update_counter + 1

\* this step received a frame whose id is not 0x101
ReceivedOther ==
    /\ pc = "Waiting"
    /\ msg' # None
    /\ msg'.arbitration_id # STEERING_WHEEL_STATUS_ID

(***************************************************************************)
(* Properties                                                              *)
(***************************************************************************)

\* C1: in every reachable state gear is an integer with 0 <= gear <= 9,
\* whatever timeouts, other frames and 0x101 frames were received.
C1_GearInRange == gear \in 0..9

\* Ten frames processed, gear 9 and all buttons released: the Up bit changed
\* in each of the ten frames, so one of the changes met gear = 9 and was
\* clamped.
C1_Witness == update_counter = 10 /\ gear = 9 /\ prev_buttons = 0

\* C2: a received frame whose id is not 0x101 changes none of gear,
\* pit_active, drs_status, prev_buttons, update_counter, the temperatures
\* and their targets, and bus.send is not called.
C2_OtherFrameIgnored ==
    [][ReceivedOther =>
          /\ UNCHANGED <<gear, pit_active, drs_status, prev_buttons,
                         update_counter, temp1, temp2,
                         target_temp1, target_temp2>>
          /\ UNCHANGED <<tx, sent>>]_vars

\* a frame with another id was taken after three frames had been processed
\* and answered
C2_Witness ==
    /\ pc = "Delay"
    /\ msg \in OtherFrames
    /\ update_counter = 3
    /\ sent = 3
    /\ gear = 3

\* C3: a decode error or an encode error does not terminate the driver
\* loop: after the failing cycle the loop is waiting for the next frame.
C3_LoopSurvivesCodecError ==
    err \in {"DecodeError", "EncodeError"} => pc = "Waiting"

\* C4: a cycle that fails with a decode or encode error leaves gear,
\* pit_active, drs_status, prev_buttons, update_counter and the
\* temperatures and targets as they were before the cycle.
C4_FailedCycleKeepsState ==
    [][(err = "none" /\ err' # "none") => UNCHANGED derived]_vars

\* C5: a send happens only in a cycle that accepted a 0x101 frame, the n-th
\* frame sent is built from the n-th accepted frame, and the number of
\* frames sent never exceeds the number accepted.
C5_OneOutputPerAcceptedInOrder ==
    [][/\ sent' <= accepted'
       /\ sent' # sent =>
             /\ sent' = sent + 1
             /\ accepted' = accepted + 1
             /\ sent' = accepted'
             /\ pc = "Waiting"
             /\ msg' # None
             /\ msg'.arbitration_id = STEERING_WHEEL_STATUS_ID
             /\ tx'.data.Clutch_Feedback = msg'.ClutchValue
             /\ tx'.data.Rotary_Feedback = msg'.RotaryPosition
             /\ tx'.data.Gear_Actual = gear']_vars

\* two frames answered, then a timeout and a frame with another id, neither
\* of which sent anything
C5_Witness ==
    /\ sent = 2
    /\ accepted = 2
    /\ msg \in OtherFrames
    /\ pc = "Waiting"

\* C6: pit_active is flipped by every processed frame in which the
\* PitLimiter bit is 1 and was 0 in the previous bitmask, and is changed by
\* nothing else (held level, falling edge, other buttons, other steps); two
\* rising edges bring it back to its original value.
C6_PitTogglesOnRisingEdge ==
    [][pit_active' =
          IF /\ Processed
             /\ BitOf(prev_buttons, 8) = 0
             /\ msg'.Button_PitLimiter = 1
          THEN 1 - pit_active
          ELSE pit_active]_vars

\* Three frames processed, PitLimiter pressed in the last and pit_active
\* back at 0: the bit went 1, 0, 1, which is two rising edges.
C6_Witness ==
    /\ update_counter = 3
    /\ BitOf(prev_buttons, 8) = 1
    /\ pit_active = 0
    /\ err = "none"

\* C7 as stated: for every first processed frame with Button_UP set the
\* update registers a rising edge on the Up bit and gear ends exactly 1
\* higher.
C7_FirstFrameUpAddsOne ==
    [][(update_counter = 0 /\ Processed /\ msg'.Button_UP = 1) =>
          /\ BitOf(RisingEdges(Buttons(data'), prev_buttons), 1) = 1
          /\ gear' = gear + 1]_vars

\* C7 amended: for every first processed frame with Button_UP set and
\* Button_DOWN clear the update registers a rising edge on the Up bit and
\* gear ends exactly 1 higher; with Button_DOWN also set the rising edge is
\* registered and gear ends where it began.
C7_FirstFrameUpAlone ==
    [][(update_counter = 0 /\ Processed /\ msg'.Button_UP = 1) =>
          /\ BitOf(RisingEdges(Buttons(data'), prev_buttons), 1) = 1
          /\ gear' = IF msg'.Button_DOWN = 0 THEN gear + 1 ELSE gear]_vars

\* the first frame had Up pressed (with DRS and PitLimiter) and Down clear
C7_Witness ==
    /\ update_counter = 1
    /\ prev_buttons = 13
    /\ gear = 1
    /\ err = "none"

\* C8: a processed frame with Button_UP = 1 and the other buttons 0, met
\* with previous bitmask 0 and gear g in 0..8, leaves gear = g + 1 and
\* prev_buttons = 1 and does not change pit_active and drs_status.
C8_UpAloneFromReleased ==
    [][(/\ Processed
        /\ prev_buttons = 0
        /\ gear \in 0..8
        /\ msg'.Button_UP = 1
        /\ msg'.Button_DOWN = 0
        /\ msg'.Button_DRS = 0
        /\ msg'.Button_PitLimiter = 0) =>
          /\ gear' = gear + 1
          /\ prev_buttons' = 1
          /\ UNCHANGED <<pit_active, drs_status>>]_vars

\* Gear 3 after three frames with both latches untouched: the bitmasks were
\* 1, 0, 1, so the third frame was Up alone on bitmask 0 and gear 2.
C8_Witness ==
    /\ update_counter = 3
    /\ gear = 3
    /\ prev_buttons = 1
    /\ pit_active = 0
    /\ drs_status = 0
    /\ err = "none"

\* C9: prev_buttons is 0 before the first processed frame; a processed frame
\* sets it to that frame's bitmask (Up = 1, Down = 2, DRS = 4,
\* PitLimiter = 8) after the edges were taken against the old value; no
\* other step changes it.
C9_PrevButtonsIsLastMask ==
    /\ [](update_counter = 0 => prev_buttons = 0)
    /\ [](data # None => prev_buttons = MaskOf(data))
    /\ [][IF Processed
          THEN /\ prev_buttons' = MaskOf(msg')
               /\ (/\ BitOf(prev_buttons, 1) # msg'.Button_UP
                   /\ BitOf(prev_buttons, 2) = msg'.Button_DOWN)
                  => gear' = Min(gear + 1, 9)
          ELSE prev_buttons' = prev_buttons]_vars

\* the bitmask of the second processed frame is still held after a frame
\* with another id and the delay
C9_Witness ==
    /\ update_counter = 2
    /\ prev_buttons = 10
    /\ msg \in OtherFrames
    /\ pc = "Waiting"

\* C10: every frame sent has id 0x201 and the extended flag false, carries
\* gear, pit_active and drs_status as this cycle's update left them, and
\* carries the ClutchValue and RotaryPosition of the frame just received.
C10_OutputReflectsThisCycle ==
    [][IF sent' # sent
       THEN /\ tx'.arbitration_id = 513
            /\ tx'.is_extended_id = FALSE
            /\ tx'.data.Gear_Actual = gear'
            /\ tx'.data.PitLimiter_Active = pit_active'
            /\ tx'.data.DRS_Status = drs_status'
            /\ tx'.data.Clutch_Feedback = msg'.ClutchValue
            /\ tx'.data.Rotary_Feedback = msg'.RotaryPosition
       ELSE tx' = tx]_vars

\* the second answer carries the second frame's passthrough values and
\* the state both latches and the gear reached in that cycle
C10_Witness ==
    /\ sent = 2
    /\ pc = "Delay"
    /\ tx # None
    /\ tx.data.Clutch_Feedback = 50
    /\ tx.data.Rotary_Feedback = 3
    /\ tx.data.Gear_Actual = 2
    /\ tx.data.PitLimiter_Active = 1
    /\ tx.data.DRS_Status = 1

\* distance of a sensor value from its target
Distance(temp, target) ==
    IF target >= temp THEN target - temp ELSE temp - target

\* C11: a receive timeout leaves the loop waiting: nothing is sent, no
\* state variable changes, and the next receive starts without the delay
\* step.
C11_TimeoutLoopsAtOnce ==
    [][(pc = "Waiting" /\ msg' = None) =>
          /\ pc' = "Waiting"
          /\ UNCHANGED <<derived, data, tx, sent, accepted, err>>]_vars

\* a timeout after two answered frames: the loop is at bus.recv again
C11_Witness ==
    /\ pc = "Waiting"
    /\ msg = None
    /\ update_counter = 2
    /\ sent = 2

\* C12: a cycle that sent its answer is followed by the delay step before
\* the next receive: the send leaves the loop at the delay, and the delay
\* step receives nothing and leads to the next receive.
C12_DelayAfterEachAnswer ==
    [][/\ sent' # sent => pc' = "Delay"
       /\ pc = "Delay" =>
             /\ pc' = "Waiting"
             /\ UNCHANGED <<msg, accepted, sent, update_counter>>]_vars

\* the second answer was sent, the delay has elapsed and the loop is back
\* at bus.recv with that frame still in msg
C12_Witness ==
    /\ pc = "Waiting"
    /\ msg # None
    /\ msg.arbitration_id = 257
    /\ sent = 2
    /\ update_counter = 2

C14_RetargetEvery20th ==
    [][/\ update_counter' # update_counter =>
             /\ update_counter' = update_counter + 1
             /\ accepted' = accepted + 1
             /\ accepted' = update_counter'
             /\ pc = "Waiting"
             /\ msg'.arbitration_id = 257
       /\ IF Processed /\ update_counter' % 20 = 0
          THEN /\ target_temp1' \in Target1
               /\ target_temp2' \in Target2
          ELSE UNCHANGED <<target_temp1, target_temp2>>]_vars

\* 39 frames processed and both targets differ from the initial ones: they
\* were drawn at the 20th frame and held since
C14_Witness ==
    /\ update_counter = 39
    /\ target_temp1 = 1500
    /\ target_temp2 = 14500

\* C15: drs_status is flipped by every processed frame in which the DRS bit
\* is 1 and was 0 in the previous bitmask (0 before the first frame), and is
\* changed by no other step: not by a held DRS bit, a falling edge, or a
\* change of Up, Down or PitLimiter.
C15_DrsTogglesOnRisingEdge ==
    [][drs_status' =
          IF /\ Processed
             /\ BitOf(prev_buttons, 4) = 0
             /\ msg'.Button_DRS = 1
          THEN 1 - drs_status
          ELSE drs_status]_vars

\* DRS pressed in the first frame and released in the second: flipped by
\* the press, not by the release
C15_Witness ==
    /\ update_counter = 2
    /\ BitOf(prev_buttons, 4) = 0
    /\ drs_status = 1
    /\ err = "none"

\* C16: in every frame sent, LED1_Temperature is 1 exactly when temp2 as
\* this cycle's convergence step and noise left it is greater than 130, and
\* 0 at exactly 130 and below.
C16_WarningAbove130 ==
    [][sent' # sent =>
          /\ tx'.data.Temp2 = temp2'
          /\ tx'.data.LED1_Temperature \in {0, 1}
          /\ (tx'.data.LED1_Temperature = 1) <=> (temp2' > 13000)]_vars

\* an answer sent with temp2 at exactly 130 carries no warning
C16_Witness ==
    /\ tx # None
    /\ tx.data.Temp2 = 13000
    /\ tx.data.LED1_Temperature = 0
    /\ temp2 = 13000

\* C17 as stated: with the target held and zero noise every sensor update
\* moves the value strictly closer to the target, and the new distance is
\* exactly 0.95 times the old one.
C17_StrictlyCloserBy95Percent ==
    [][(/\ Processed
        /\ drawn' = <<0, 0>>
        /\ UNCHANGED <<target_temp1, target_temp2>>) =>
          /\ Distance(temp1', target_temp1) < Distance(temp1, target_temp1)
          /\ Distance(temp2', target_temp2) < Distance(temp2, target_temp2)
          /\ 20 * Distance(temp1', target_temp1)
                = 19 * Distance(temp1, target_temp1)
          /\ 20 * Distance(temp2', target_temp2)
                = 19 * Distance(temp2, target_temp2)]_vars

\* C17 amended: with the target held and zero noise a sensor update never
\* moves the value away from the target; a value equal to the target stays
\* there; the value moves strictly closer whenever the 5% step does not
\* round to zero; and the new distance is 0.95 times the old one up to the
\* rounding of that step (half a unit of the representation).
C17_CloserWithinRounding ==
    [][(/\ Processed
        /\ drawn' = <<0, 0>>
        /\ UNCHANGED <<target_temp1, target_temp2>>) =>
          \A s \in {<<temp1, temp1', target_temp1>>,
                    <<temp2, temp2', target_temp2>>} :
             LET before == Distance(s[1], s[3])
                 after  == Distance(s[2], s[3])
                 diff   == 20 * after - 19 * before
             IN  /\ after <= before
                 /\ before = 0 => after = 0
                 /\ before > 10 => after < before
                 /\ diff \in -10..10]_vars

\* the frame after the first reassignment, taken with zero noise: both
\* values are on their way to targets they have not reached
C17_Witness ==
    /\ update_counter = 21
    /\ drawn = <<0, 0>>
    /\ target_temp1 = 1500
    /\ target_temp2 = 14500
    /\ Distance(temp1, target_temp1) > 10
    /\ Distance(temp2, target_temp2) > 10

\* C18: when the Up bit and the Down bit both differ from the previous
\* bitmask in a processed frame, the increment with its clamp is applied
\* before the decrement with its clamp: gear ends where it was for gear
\* 0..8 and at 8 for gear 9.
C18_UpBeforeDown ==
    [][(/\ Processed
        /\ BitOf(prev_buttons, 1) # msg'.Button_UP
        /\ BitOf(prev_buttons, 2) # msg'.Button_DOWN) =>
          gear' = IF gear = 9 THEN 8 ELSE gear]_vars

\* Up and Down both pressed in the first frame: gear is back at 0, where
\* the decrement first would have left 1
C18_Witness ==
    /\ update_counter = 1
    /\ BitOf(prev_buttons, 1) = 1
    /\ BitOf(prev_buttons, 2) = 1
    /\ gear = 0
    /\ err = "none"

\* C19: a received frame whose id is not 0x101 takes the loop to the delay
\* step, and during the delay step no frame of any id is received, so a
\* 0x101 frame behind it is processed only after the delay.
C19_OtherFrameStillDelays ==
    [][/\ ReceivedOther => pc' = "Delay"
       /\ (pc = "Waiting" /\ msg' # None) => pc' # "Waiting"
       /\ pc = "Delay" => UNCHANGED <<msg, accepted, derived>>]_vars

\* the very first frame had another id and the loop is at time.sleep
C19_Witness ==
    /\ pc = "Delay"
    /\ msg \in OtherFrames
    /\ accepted = 0

\* C20: in every frame sent LED2_PitLimiter equals PitLimiter_Active, and
\* both equal pit_active as this cycle's latch update left it.
C20_Led2FollowsPitActive ==
    /\ [](tx # None =>
            tx.data.LED2_PitLimiter = tx.data.PitLimiter_Active)
    /\ [][sent' # sent =>
            /\ tx'.data.LED2_PitLimiter = pit_active'
            /\ tx'.data.PitLimiter_Active = pit_active']_vars

\* PitLimiter pressed in the first and again in the third frame, DRS
\* pressed once before: the third answer shows the pit latch back at 0 on
\* both signals while the DRS latch is 1
C20_Witness ==
    /\ sent = 3
    /\ prev_buttons = 8
    /\ tx # None
    /\ tx.data.LED2_PitLimiter = 0
    /\ tx.data.PitLimiter_Active = 0
    /\ tx.data.DRS_Status = 1

====
